---- MODULE Spec2Model ----
(***************************************************************************)
(* Resume-Fit-GPT: the resume document assembler of                        *)
(* pdf_generation/resume_pdf_generator.py.                                 *)
(*                                                                         *)
(* One build of ResumePDFGenerator.generate_resume is a walk over the      *)
(* record `data`; every call of _add_table_row and of                      *)
(* _append_section_table_style is one step.  Text is a sequence of string  *)
(* parts (an f-string is the concatenation of its parts); a URL is a       *)
(* sequence of one-character strings, so that str.replace is computed.     *)
(***************************************************************************)
EXTENDS Integers, Sequences, FiniteSets

VARIABLES
    data,          \* the resume record handed to generate_resume
    pc,            \* position of the build in generate_resume
    err,           \* the exception that ended the build, or "None"
    locals,        \* email, name, phone, linkedin, github, address (lines 274-299)
    table_data,    \* the row list
    table_styles,  \* the style directive list
    row_index,     \* the threaded row index
    idx,           \* position of the enclosing for-loop (job, education entry, skill group)
    i,             \* position of the highlight loop
    call,          \* arguments of the most recent _add_table_row call
    pdf,           \* TRUE once doc.build has written the file
    url,           \* input of a stand-alone clean_url application
    upc,           \* "idle", "input", "once", "twice"
    once,          \* clean_url(url)
    twice          \* clean_url(clean_url(url))

build_vars == <<data, pc, err, locals, table_data, table_styles, row_index, idx, i, call, pdf>>
url_vars == <<url, upc, once, twice>>
vars == <<data, pc, err, locals, table_data, table_styles, row_index, idx, i, call, pdf,
          url, upc, once, twice>>

-----------------------------------------------------------------------------
(* Bounds of the input space.                                              *)

MaxJobs == 2
MaxPieces == 3

-----------------------------------------------------------------------------
(* Strings.                                                                *)

HTTPS == <<"h", "t", "t", "p", "s", ":", "/", "/">>
HTTP == <<"h", "t", "t", "p", ":", "/", "/">>
WWW == <<"w", "w", "w", ".">>

StartsWith(s, old) ==
    /\ Len(s) >= Len(old)
    /\ SubSeq(s, 1, Len(old)) = old

\* str.replace(old, "") with only the first occurrence removed (count=1).
RECURSIVE ReplaceFirst(_, _)
ReplaceFirst(s, old) ==
    IF Len(s) < Len(old) THEN s
    ELSE IF StartsWith(s, old) THEN SubSeq(s, Len(old) + 1, Len(s))
    ELSE <<Head(s)>> \o ReplaceFirst(Tail(s), old)

\* str.replace(old, ""): every non-overlapping occurrence of old, scanning
\* from the left, is removed.
RECURSIVE Replace(_, _)
Replace(s, old) ==
    IF Len(s) < Len(old) THEN s
    ELSE IF StartsWith(s, old) THEN Replace(SubSeq(s, Len(old) + 1, Len(s)), old)
    ELSE <<Head(s)>> \o Replace(Tail(s), old)

\* url.replace("https://", "").replace("http://", "").replace("www.", "")
clean_url(u) == Replace(Replace(Replace(u, HTTPS), HTTP), WWW)

\* sep.join(parts), as a sequence of string parts
RECURSIVE Join(_, _)
Join(parts, sep) ==
    IF Len(parts) = 0 THEN <<>>
    ELSE IF Len(parts) = 1 THEN <<parts[1]>>
    ELSE <<parts[1], sep>> \o Join(Tail(parts), sep)

-----------------------------------------------------------------------------
(* The records a build is run on.                                          *)

Without(d, k) == [x \in DOMAIN d \ {k} |-> d[x]]

T1 == [name |-> "Engineer", startdate |-> "2020", enddate |-> "2022"]
T2 == [name |-> "Intern", startdate |-> "2019", enddate |-> "2020"]

BulletTexts == <<"b1", "b2", "b3", "b4", "b5">>
HighlightCounts == {0, 1, 2, 5}
Highlights(n) == [k \in 1..n |-> BulletTexts[k]]

Job(company, titles, n) ==
    [company |-> company, location |-> "Remote", titles |-> titles,
     highlights |-> Highlights(n)]

\* jobs with 1, 2 and 5 highlights, a job with no title, a job with no highlight
JobShapes ==
    {Job("A", <<T1>>, 1), Job("B", <<T1>>, 2), Job("C", <<T2, T1>>, 5),
     Job("D", <<>>, 1), Job("E", <<T1>>, 0)}

ExperienceLists == UNION {[1..n -> JobShapes] : n \in 0..MaxJobs}

E0 == [school |-> "S0", degrees |-> <<>>]
E1 == [school |-> "S1", degrees |-> <<[names |-> <<"BS">>]>>]
E2 == [school |-> "S2", degrees |-> <<[names |-> <<"MS", "PhD">>], [names |-> <<"BA">>]>>]
EducationLists == {<<>>, <<E2, E1>>, <<E1, E0>>}

\* a skill group is a dict: its items in insertion order
G0 == << <<"category", "Tools">> >>
G1 == << <<"category", "Languages">>, <<"skills", <<"Go", "Rust">> >> >>
G2 == << <<"type", "Tools">>, <<"items", <<"Git">> >>, <<"level", "expert">> >>
SkillLists == {<<>>, <<G1, G2>>, <<G1, G0>>}

LinkedInUrl == HTTPS \o WWW \o <<"l", "i", "/", "x">>
LinkedInUrl2 == HTTP \o <<"l", "i", "/", "y">>
GitHubUrl == WWW \o <<"g", "h", "/", "x">>
WebsiteLists ==
    {<<>>,
     <<[icon |-> "linkedin", url |-> LinkedInUrl]>>,
     <<[icon |-> "github", url |-> GitHubUrl], [icon |-> "linkedin", url |-> LinkedInUrl2],
       [icon |-> "linkedin", url |-> LinkedInUrl]>>}

Basic(ws) ==
    [name |-> "Ada", contact |-> [email |-> "a@b.c", phone |-> "555"],
     websites |-> ws, address |-> <<"City", "ST">>]

Record(ws, exps, edu, sk) ==
    [basic |-> Basic(ws), objective |-> "Objective text", experiences |-> exps,
     education |-> edu, skills |-> sk]

RequiredKeys ==
    {"basic.name", "basic.contact.email", "basic.contact.phone", "objective",
     "experiences", "education", "skills"}

\* the record d with the required key k removed
Drop(d, k) ==
    CASE k = "basic.name" -> [d EXCEPT !.basic = Without(d.basic, "name")]
      [] k = "basic.contact.email" ->
            [d EXCEPT !.basic = [d.basic EXCEPT !.contact = Without(d.basic.contact, "email")]]
      [] k = "basic.contact.phone" ->
            [d EXCEPT !.basic = [d.basic EXCEPT !.contact = Without(d.basic.contact, "phone")]]
      [] OTHER -> Without(d, k)

WithDebug(d, flag) == [x \in DOMAIN d \cup {"debug"} |-> IF x = "debug" THEN flag ELSE d[x]]

\* what varies besides the three lists: one required key absent, or all
\* present with the debug flag and the websites varying
Variants ==
    {[missing |-> k, debug |-> FALSE, websites |-> <<>>] : k \in RequiredKeys}
    \cup {[missing |-> "none", debug |-> b, websites |-> ws] :
              b \in BOOLEAN, ws \in WebsiteLists}

MakeRecord(v, exps, edu, sk) ==
    LET d == Record(v.websites, exps, edu, sk)
        dd == IF v.debug THEN WithDebug(d, TRUE) ELSE d
    IN  IF v.missing = "none" THEN dd ELSE Drop(dd, v.missing)

HasKey(d, k) == k \in DOMAIN d

\* which required key the record lacks, or "none"
Missing(d) ==
    IF ~HasKey(d.basic, "name") THEN "basic.name"
    ELSE IF ~HasKey(d.basic.contact, "email") THEN "basic.contact.email"
    ELSE IF ~HasKey(d.basic.contact, "phone") THEN "basic.contact.phone"
    ELSE IF ~HasKey(d, "objective") THEN "objective"
    ELSE IF ~HasKey(d, "experiences") THEN "experiences"
    ELSE IF ~HasKey(d, "education") THEN "education"
    ELSE IF ~HasKey(d, "skills") THEN "skills"
    ELSE "none"

-----------------------------------------------------------------------------
(* resume_pdf_styles: the values the generator reads from it.              *)

DEFAULT_PADDING == <<1, 1>>
DEBUG_STYLE == <<"GRID", <<0, 0>>, <<-1, -1>>, "0", "blue">>
DOCUMENT_ALIGNMENT ==
    << <<"ALIGN", <<0, 0>>, <<0, -1>>, "LEFT">>,
       <<"ALIGN", <<1, 0>>, <<1, -1>>, "RIGHT">> >>
BulletGlyph == "U+2022"
Bold(text) == <<"<font name='bold'>">> \o text \o <<"</font>">>

-----------------------------------------------------------------------------
(* The accumulator.                                                        *)

\* Paragraph(content, style) / Paragraph(content, bulletText=..., style=...)
Paragraph(content, style, bulletText) ==
    [text |-> content, style |-> style, bulletText |-> bulletText]

PaddingStyles(ri, padding) ==
    << <<"BOTTOMPADDING", <<0, ri>>, <<-1, ri>>, padding[1]>>,
       <<"TOPPADDING", <<0, ri>>, <<-1, ri>>, padding[2]>> >>

SpanStyle(ri) == <<"SPAN", <<0, ri>>, <<1, ri>> >>

\* _add_table_row with the span directive appended whatever the flag says.
AddTableRowAlwaysSpan(content_style_map, span, padding, bullet_point) ==
    /\ table_data' = Append(table_data,
            [c \in 1..Len(content_style_map) |->
                Paragraph(content_style_map[c][1], content_style_map[c][2], bullet_point)])
    /\ table_styles' = table_styles \o PaddingStyles(row_index, padding)
                           \o <<SpanStyle(row_index)>>
    /\ row_index' = row_index + 1
    /\ call' = [row_index |-> row_index, content_style_map |-> content_style_map,
                span |-> span, padding |-> padding, bullet_point |-> bullet_point]

\* _add_table_row: one row, its padding directives, its span directive, and
\* the next row index
AddTableRow(content_style_map, span, padding, bullet_point) ==
    /\ table_data' = Append(table_data,
            [c \in 1..Len(content_style_map) |->
                Paragraph(content_style_map[c][1], content_style_map[c][2], bullet_point)])
    /\ table_styles' = table_styles \o PaddingStyles(row_index, padding)
                           \o (IF span THEN <<SpanStyle(row_index)>> ELSE <<>>)
    /\ row_index' = row_index + 1
    /\ call' = [row_index |-> row_index, content_style_map |-> content_style_map,
                span |-> span, padding |-> padding, bullet_point |-> bullet_point]

SectionStyles(ri) ==
    << <<"TOPPADDING", <<0, ri>>, <<1, ri>>, 5>>,
       <<"BOTTOMPADDING", <<0, ri>>, <<1, ri>>, 2>>,
       <<"LINEBELOW", <<0, ri>>, <<-1, ri>>, "0.1", "black">> >>

\* _append_section_table_style called with row_index instead of row_index - 1.
AppendSectionTableStyleNextRow(ri) ==
    /\ table_styles' = table_styles \o SectionStyles(ri + 1)
    /\ UNCHANGED <<table_data, row_index, call>>

\* _append_section_table_style
AppendSectionTableStyle(ri) ==
    /\ table_styles' = table_styles \o SectionStyles(ri)
    /\ UNCHANGED <<table_data, row_index, call>>

SectionRow(title) ==
    AddTableRow(<< <<<<title>>, "section">> >>, TRUE, DEFAULT_PADDING, "None")

Raise(e) ==
    /\ pc' = "error"
    /\ err' = e
    /\ UNCHANGED <<data, locals, table_data, table_styles, row_index, idx, i, call, pdf>>

-----------------------------------------------------------------------------
(* generate_resume, lines 274-310.                                         *)

\* next((clean_url(site["url"]) for site in websites if site["icon"] == icon), "")
RECURSIVE FirstUrl(_, _)
FirstUrl(websites, icon) ==
    IF Len(websites) = 0 THEN <<>>
    ELSE IF websites[1].icon = icon THEN clean_url(websites[1].url)
    ELSE FirstUrl(Tail(websites), icon)

\* the subscripts of lines 274-299 all succeed
PrologueKeys(d) ==
    /\ HasKey(d, "basic")
    /\ HasKey(d.basic, "contact")
    /\ HasKey(d.basic.contact, "email")
    /\ HasKey(d.basic, "name")
    /\ HasKey(d.basic.contact, "phone")
    /\ HasKey(d.basic, "websites")
    /\ HasKey(d.basic, "address")

\* data.get("debug", False)
Debug(d) == IF HasKey(d, "debug") THEN d.debug ELSE FALSE

Prologue ==
    /\ pc = "start"
    /\ PrologueKeys(data)
    /\ locals' = [email |-> data.basic.contact.email,
                  name |-> data.basic.name,
                  phone |-> data.basic.contact.phone,
                  linkedin |-> FirstUrl(data.basic.websites, "linkedin"),
                  github |-> FirstUrl(data.basic.websites, "github"),
                  address |-> Join(data.basic.address, ", ")]
    /\ table_data' = <<>>
    /\ table_styles' = (IF Debug(data) THEN <<DEBUG_STYLE>> ELSE <<>>) \o DOCUMENT_ALIGNMENT
    /\ row_index' = 0
    /\ pc' = "name"
    /\ UNCHANGED <<data, err, idx, i, call, pdf>>

PrologueKeyError ==
    /\ pc = "start"
    /\ ~PrologueKeys(data)
    /\ Raise("KeyError")

-----------------------------------------------------------------------------
(* generate_resume, lines 312-354: name, contact, objective.               *)

ContactText ==
    <<locals.email, " | ", locals.phone, " | ">> \o locals.linkedin \o <<" | ">>
        \o locals.github \o <<" | ">> \o locals.address

NameRow ==
    /\ pc = "name"
    /\ AddTableRow(<< <<<<locals.name>>, "name">> >>, TRUE, DEFAULT_PADDING, "None")
    /\ pc' = "contact"
    /\ UNCHANGED <<data, err, locals, idx, i, pdf>>

ContactRow ==
    /\ pc = "contact"
    /\ AddTableRow(<< <<ContactText, "contact">> >>, TRUE, DEFAULT_PADDING, "None")
    /\ pc' = "objective"
    /\ UNCHANGED <<data, err, locals, idx, i, pdf>>

ObjectiveHeading ==
    /\ pc = "objective"
    /\ SectionRow("Objective")
    /\ pc' = "objective_style"
    /\ UNCHANGED <<data, err, locals, idx, i, pdf>>

ObjectiveStyle ==
    /\ pc = "objective_style"
    /\ AppendSectionTableStyle(row_index - 1)
    /\ pc' = "objective_body"
    /\ UNCHANGED <<data, err, locals, idx, i, pdf>>

ObjectiveBody ==
    /\ pc = "objective_body"
    /\ HasKey(data, "objective")
    /\ AddTableRow(<< <<<<data.objective>>, "objective">> >>, TRUE, DEFAULT_PADDING, "None")
    /\ pc' = "experiences"
    /\ UNCHANGED <<data, err, locals, idx, i, pdf>>

\* data.get("objective") in place of data["objective"]: the row is left out.
ObjectiveKeyIgnored ==
    /\ pc = "objective_body"
    /\ ~HasKey(data, "objective")
    /\ pc' = "experiences"
    /\ UNCHANGED <<data, err, locals, table_data, table_styles, row_index, idx, i, call, pdf>>

ObjectiveKeyError ==
    /\ pc = "objective_body"
    /\ ~HasKey(data, "objective")
    /\ Raise("KeyError")

-----------------------------------------------------------------------------
(* add_experiences.                                                        *)

ExperiencesHeading ==
    /\ pc = "experiences"
    /\ HasKey(data, "experiences")
    /\ SectionRow("Experience")
    /\ pc' = "experiences_style"
    /\ UNCHANGED <<data, err, locals, idx, i, pdf>>

ExperiencesKeyError ==
    /\ pc = "experiences"
    /\ ~HasKey(data, "experiences")
    /\ Raise("KeyError")

ExperiencesStyle ==
    /\ pc = "experiences_style"
    /\ AppendSectionTableStyle(row_index - 1)
    /\ idx' = 0
    /\ pc' = "job"
    /\ UNCHANGED <<data, err, locals, i, pdf>>

\* the job of the running iteration: experiences[idx]
CurrentJob == data.experiences[idx + 1]

\* f"{job['titles'][0]['startdate']}-{job['titles'][0]['enddate']}"
Duration(job) == <<job.titles[1].startdate, "-", job.titles[1].enddate>>

\* the company row emitted with span=True, as the rows around it are.
CompanyRowSpanned ==
    /\ pc = "job"
    /\ idx < Len(data.experiences)
    /\ Len(CurrentJob.titles) > 0
    /\ AddTableRow(<< <<<<CurrentJob.company>>, "company_heading">>,
                      <<Duration(CurrentJob), "company_duration">> >>,
                   TRUE, DEFAULT_PADDING, "None")
    /\ pc' = "title"
    /\ UNCHANGED <<data, err, locals, idx, i, pdf>>

CompanyRow ==
    /\ pc = "job"
    /\ idx < Len(data.experiences)
    /\ Len(CurrentJob.titles) > 0
    /\ AddTableRow(<< <<<<CurrentJob.company>>, "company_heading">>,
                      <<Duration(CurrentJob), "company_duration">> >>,
                   FALSE, DEFAULT_PADDING, "None")
    /\ pc' = "title"
    /\ UNCHANGED <<data, err, locals, idx, i, pdf>>

\* a job without titles skipped instead of failing.
TitlesSkipped ==
    /\ pc = "job"
    /\ idx < Len(data.experiences)
    /\ Len(CurrentJob.titles) = 0
    /\ idx' = idx + 1
    /\ UNCHANGED <<data, pc, err, locals, table_data, table_styles, row_index, i, call, pdf>>

\* job['titles'][0] of an empty list
TitlesIndexError ==
    /\ pc = "job"
    /\ idx < Len(data.experiences)
    /\ Len(CurrentJob.titles) = 0
    /\ Raise("IndexError")

TitleRow ==
    /\ pc = "title"
    /\ AddTableRow(<< <<<<CurrentJob.titles[1].name>>, "company_title">>,
                      <<<<CurrentJob.location>>, "company_location">> >>,
                   FALSE, DEFAULT_PADDING, "None")
    /\ i' = 0
    /\ pc' = "bullet"
    /\ UNCHANGED <<data, err, locals, idx, pdf>>

\* i == len(job["highlights"]): never true inside the loop.
IsLastHighlightOffByOne(k, highlights) == k = Len(highlights)

\* i == len(job["highlights"]) - 1
IsLastHighlight(k, highlights) == k = Len(highlights) - 1

\* the highlight loop stopping one short.
HasNextHighlightShort(k, highlights) == k < Len(highlights) - 1

\* for i, bullet_point in enumerate(job["highlights"]): another iteration follows
HasNextHighlight(k, highlights) == k < Len(highlights)

\* the highlights walked from the end of the list.
HighlightReversed(k, highlights) == highlights[Len(highlights) - k]

\* the bullet_point of iteration i
Highlight(k, highlights) == highlights[k + 1]

BulletStyle(k, highlights) ==
    IF IsLastHighlight(k, highlights) THEN "last_bullet_point" ELSE "bullet_points"

BulletPadding(k, highlights) ==
    IF IsLastHighlight(k, highlights) THEN <<5, 1>> ELSE <<0, 1>>

BulletRow ==
    /\ pc = "bullet"
    /\ HasNextHighlight(i, CurrentJob.highlights)
    /\ AddTableRow(<< <<<<Highlight(i, CurrentJob.highlights)>>,
                        BulletStyle(i, CurrentJob.highlights)>> >>,
                   TRUE, BulletPadding(i, CurrentJob.highlights), BulletGlyph)
    /\ i' = i + 1
    /\ UNCHANGED <<data, pc, err, locals, idx, pdf>>

\* the highlight loop is exhausted: the next job
NextJob ==
    /\ pc = "bullet"
    /\ ~HasNextHighlight(i, CurrentJob.highlights)
    /\ idx' = idx + 1
    /\ pc' = "job"
    /\ UNCHANGED <<data, err, locals, table_data, table_styles, row_index, i, call, pdf>>

\* the job loop is exhausted: return row_index
ExperiencesReturn ==
    /\ pc = "job"
    /\ idx = Len(data.experiences)
    /\ pc' = "education"
    /\ UNCHANGED <<data, err, locals, table_data, table_styles, row_index, idx, i, call, pdf>>

-----------------------------------------------------------------------------
(* add_education.                                                          *)

EducationHeading ==
    /\ pc = "education"
    /\ HasKey(data, "education")
    /\ SectionRow("Education")
    /\ pc' = "education_style"
    /\ UNCHANGED <<data, err, locals, idx, i, pdf>>

EducationKeyError ==
    /\ pc = "education"
    /\ ~HasKey(data, "education")
    /\ Raise("KeyError")

EducationStyle ==
    /\ pc = "education_style"
    /\ AppendSectionTableStyle(row_index - 1)
    /\ idx' = 0
    /\ pc' = "edu"
    /\ UNCHANGED <<data, err, locals, i, pdf>>

CurrentEdu == data.education[idx + 1]

\* f"<font name='...'>{edu['school']}</font>, {degrees}"
EducationText(edu) ==
    Bold(<<edu.school>>) \o <<", ">> \o Join(edu.degrees[1].names, ", ")

EducationRow ==
    /\ pc = "edu"
    /\ idx < Len(data.education)
    /\ Len(CurrentEdu.degrees) > 0
    /\ AddTableRow(<< <<EducationText(CurrentEdu), "education">> >>,
                   TRUE, DEFAULT_PADDING, "None")
    /\ idx' = idx + 1
    /\ UNCHANGED <<data, pc, err, locals, i, pdf>>

\* edu["degrees"][0] of an empty list
DegreesIndexError ==
    /\ pc = "edu"
    /\ idx < Len(data.education)
    /\ Len(CurrentEdu.degrees) = 0
    /\ Raise("IndexError")

EducationReturn ==
    /\ pc = "edu"
    /\ idx = Len(data.education)
    /\ pc' = "skills"
    /\ UNCHANGED <<data, err, locals, table_data, table_styles, row_index, idx, i, call, pdf>>

-----------------------------------------------------------------------------
(* add_skills.                                                             *)

SkillsHeading ==
    /\ pc = "skills"
    /\ HasKey(data, "skills")
    /\ SectionRow("Skills")
    /\ pc' = "skills_style"
    /\ UNCHANGED <<data, err, locals, idx, i, pdf>>

SkillsKeyError ==
    /\ pc = "skills"
    /\ ~HasKey(data, "skills")
    /\ Raise("KeyError")

SkillsStyle ==
    /\ pc = "skills_style"
    /\ AppendSectionTableStyle(row_index - 1)
    /\ idx' = 0
    /\ pc' = "group"
    /\ UNCHANGED <<data, err, locals, i, pdf>>

CurrentGroup == data.skills[idx + 1]

\* list(group.keys())
GroupKeys(group) == [k \in 1..Len(group) |-> group[k][1]]

\* group[key]
GroupGet(group, key) == group[CHOOSE k \in 1..Len(group) : group[k][1] = key][2]

\* f"<font name='...'>{skill_type}</font>: {skills_str}"
SkillsText(group) ==
    Bold(<<GroupGet(group, GroupKeys(group)[1])>>) \o <<": ">>
        \o Join(GroupGet(group, GroupKeys(group)[2]), ", ")

SkillsRow ==
    /\ pc = "group"
    /\ idx < Len(data.skills)
    /\ Len(CurrentGroup) >= 2
    /\ AddTableRow(<< <<SkillsText(CurrentGroup), "skills">> >>, TRUE, <<2, 2>>, "None")
    /\ idx' = idx + 1
    /\ UNCHANGED <<data, pc, err, locals, i, pdf>>

\* group_keys[1] of a group with one key
GroupKeysIndexError ==
    /\ pc = "group"
    /\ idx < Len(data.skills)
    /\ Len(CurrentGroup) < 2
    /\ Raise("IndexError")

SkillsReturn ==
    /\ pc = "group"
    /\ idx = Len(data.skills)
    /\ pc' = "build"
    /\ UNCHANGED <<data, err, locals, table_data, table_styles, row_index, idx, i, call, pdf>>

-----------------------------------------------------------------------------
(* generate_resume, lines 380-392: the table is built and the file written.*)

Build ==
    /\ pc = "build"
    /\ pdf' = TRUE
    /\ pc' = "done"
    /\ UNCHANGED <<data, err, locals, table_data, table_styles, row_index, idx, i, call>>

-----------------------------------------------------------------------------
(* Stand-alone applications of clean_url.                                  *)

PlainChars == {"a"}
UrlPieces == {HTTPS, HTTP, WWW, <<"a">>, <<"w">>, <<"w", "w", ".">>}

RECURSIVE Concat(_)
Concat(pieces) == IF Len(pieces) = 0 THEN <<>> ELSE Head(pieces) \o Concat(Tail(pieces))

Urls == {Concat(ps) : ps \in UNION {[1..n -> UrlPieces] : n \in 0..MaxPieces}}

CleanOnce ==
    /\ upc = "input"
    /\ once' = clean_url(url)
    /\ upc' = "once"
    /\ UNCHANGED <<url, twice>>

CleanTwice ==
    /\ upc = "once"
    /\ twice' = clean_url(once)
    /\ upc' = "twice"
    /\ UNCHANGED <<url, once>>

-----------------------------------------------------------------------------
(* Specifications.                                                         *)

NoCall == [row_index |-> -1, content_style_map |-> <<>>, span |-> FALSE,
           padding |-> <<0, 0>>, bullet_point |-> "None"]

NoLocals == [email |-> "", name |-> "", phone |-> "", linkedin |-> <<>>, github |-> <<>>,
             address |-> <<>>]

BuildStart ==
    /\ pc = "start"
    /\ err = "None"
    /\ locals = NoLocals
    /\ table_data = <<>>
    /\ table_styles = <<>>
    /\ row_index = 0
    /\ idx = 0
    /\ i = 0
    /\ call = NoCall
    /\ pdf = FALSE

UrlIdle ==
    /\ url = <<>>
    /\ upc = "idle"
    /\ once = <<>>
    /\ twice = <<>>

Init ==
    /\ \E v \in Variants, exps \in ExperienceLists, edu \in EducationLists,
          sk \in SkillLists : data = MakeRecord(v, exps, edu, sk)
    /\ BuildStart
    /\ UrlIdle

Next ==
    \/ (Prologue /\ UNCHANGED url_vars)
    \/ (PrologueKeyError /\ UNCHANGED url_vars)
    \/ (NameRow /\ UNCHANGED url_vars)
    \/ (ContactRow /\ UNCHANGED url_vars)
    \/ (ObjectiveHeading /\ UNCHANGED url_vars)
    \/ (ObjectiveStyle /\ UNCHANGED url_vars)
    \/ (ObjectiveBody /\ UNCHANGED url_vars)
    \/ (ObjectiveKeyError /\ UNCHANGED url_vars)
    \/ (ExperiencesHeading /\ UNCHANGED url_vars)
    \/ (ExperiencesKeyError /\ UNCHANGED url_vars)
    \/ (ExperiencesStyle /\ UNCHANGED url_vars)
    \/ (CompanyRow /\ UNCHANGED url_vars)
    \/ (TitlesIndexError /\ UNCHANGED url_vars)
    \/ (TitleRow /\ UNCHANGED url_vars)
    \/ (BulletRow /\ UNCHANGED url_vars)
    \/ (NextJob /\ UNCHANGED url_vars)
    \/ (ExperiencesReturn /\ UNCHANGED url_vars)
    \/ (EducationHeading /\ UNCHANGED url_vars)
    \/ (EducationKeyError /\ UNCHANGED url_vars)
    \/ (EducationStyle /\ UNCHANGED url_vars)
    \/ (EducationRow /\ UNCHANGED url_vars)
    \/ (DegreesIndexError /\ UNCHANGED url_vars)
    \/ (EducationReturn /\ UNCHANGED url_vars)
    \/ (SkillsHeading /\ UNCHANGED url_vars)
    \/ (SkillsKeyError /\ UNCHANGED url_vars)
    \/ (SkillsStyle /\ UNCHANGED url_vars)
    \/ (SkillsRow /\ UNCHANGED url_vars)
    \/ (GroupKeysIndexError /\ UNCHANGED url_vars)
    \/ (SkillsReturn /\ UNCHANGED url_vars)
    \/ (Build /\ UNCHANGED url_vars)

Spec == Init /\ [][Next]_vars

UrlInit ==
    /\ data = Record(<<>>, <<>>, <<>>, <<>>)
    /\ BuildStart
    /\ url \in Urls
    /\ upc = "input"
    /\ once = <<>>
    /\ twice = <<>>

UrlNext ==
    \/ (CleanOnce /\ UNCHANGED build_vars)
    \/ (CleanTwice /\ UNCHANGED build_vars)

UrlSpec == UrlInit /\ [][UrlNext]_vars

-----------------------------------------------------------------------------
(* Vocabulary of the properties.                                           *)

RECURSIVE TotalHighlights(_)
TotalHighlights(exps) ==
    IF Len(exps) = 0 THEN 0
    ELSE Len(Head(exps).highlights) + TotalHighlights(Tail(exps))

\* rows before the company row of job j: name, contact, the objective
\* section, the Experience heading, and the rows of the jobs before j
JobBase(j) ==
    5 + 2 * (j - 1) + TotalHighlights(SubSeq(data.experiences, 1, j - 1))

\* rows before the Education heading, and before the Skills heading
EducationBase == JobBase(Len(data.experiences) + 1)
SkillsBase == EducationBase + 1 + Len(data.education)

\* the record lacks no required key, and no list whose first element is read is empty
OtherwiseValid(d) ==
    /\ HasKey(d, "experiences") => \A j \in 1..Len(d.experiences) :
            Len(d.experiences[j].titles) > 0
    /\ HasKey(d, "education") => \A m \in 1..Len(d.education) :
            Len(d.education[m].degrees) > 0
    /\ HasKey(d, "skills") => \A g \in 1..Len(d.skills) : Len(d.skills[g]) >= 2

\* the directives of one kind scoped to exactly row ri, over all columns
RowDirectives(kind, ri) ==
    {k \in 1..Len(table_styles) :
        /\ table_styles[k][1] = kind
        /\ table_styles[k][2] = <<0, ri>>
        /\ table_styles[k][3] = <<-1, ri>>}

HasSpan(ri) ==
    \E k \in 1..Len(table_styles) :
        /\ table_styles[k][1] = "SPAN"
        /\ table_styles[k][2] = <<0, ri>>
        /\ table_styles[k][3] = <<1, ri>>

IsGlobal(d) == d[1] \in {"ALIGN", "GRID"}

\* a row reference of a directive, a negative one counted from the last row
RowRef(r) == IF r < 0 THEN Len(table_data) + r ELSE r

Tokens == {HTTPS, HTTP, WWW}

HasToken(s) ==
    \E k \in 1..Len(s) : \E t \in Tokens : StartsWith(SubSeq(s, k, Len(s)), t)

\* whole prefixes and characters that occur in none of them
RECURSIVE IsTokenString(_)
IsTokenString(s) ==
    \/ Len(s) = 0
    \/ \E t \in Tokens :
          StartsWith(s, t) /\ IsTokenString(SubSeq(s, Len(t) + 1, Len(s)))
    \/ Head(s) \in PlainChars /\ IsTokenString(Tail(s))

StripPrefix(s, p) == IF StartsWith(s, p) THEN SubSeq(s, Len(p) + 1, Len(s)) ELSE s

-----------------------------------------------------------------------------
(* C1.                                                                     *)

\* rows appended when the subscript of the missing key k is evaluated
RowsBeforeKey(k) ==
    CASE k \in {"basic.name", "basic.contact.email", "basic.contact.phone"} -> 0
      [] k = "objective" -> 3
      [] k = "experiences" -> 4
      [] k = "education" -> EducationBase
      [] k = "skills" -> SkillsBase

-----------------------------------------------------------------------------
(* C2.                                                                     *)

\* C2 as stated: a completed build has emitted 2 + 2 + (1 + 3*len(experiences)
\* + total highlights) + (1 + len(education)) + (1 + len(skills)) rows.
C2_RowCountThreePerJob ==
    pc = "done" =>
        Len(table_data) = 2 + 2
            + (1 + 3 * Len(data.experiences) + TotalHighlights(data.experiences))
            + (1 + Len(data.education)) + (1 + Len(data.skills))

\* C2, amended: a completed build has emitted 2 + 2 + (1 + 2*len(experiences)
\* + total highlights) + (1 + len(education)) + (1 + len(skills)) rows.
C2_RowCount ==
    pc = "done" =>
        Len(table_data) = 2 + 2
            + (1 + 2 * Len(data.experiences) + TotalHighlights(data.experiences))
            + (1 + Len(data.education)) + (1 + Len(data.skills))

C2_Witness ==
    /\ pc = "done"
    /\ Len(data.experiences) = 2
    /\ TotalHighlights(data.experiences) = 7
    /\ Len(data.education) = 2
    /\ Len(data.skills) = 2
    /\ Len(table_data) = 22

-----------------------------------------------------------------------------
(* C3.                                                                     *)

\* the directives generate_resume adds before the first row
GlobalCount == Len(DOCUMENT_ALIGNMENT) + (IF Debug(data) THEN 1 ELSE 0)

\* C3 as stated: in every state of a build, every directive of the style
\* list references only rows already appended.
C3_EveryDirectiveReferencesAppendedRow ==
    \A k \in 1..Len(table_styles) :
        /\ RowRef(table_styles[k][2][2]) \in 0..(Len(table_data) - 1)
        /\ RowRef(table_styles[k][3][2]) \in 0..(Len(table_data) - 1)

\* C3, amended: the alignment directives (and the debug grid) are added
\* once, before the first row, and are scoped to the whole table; every
\* other directive is scoped to one row that has already been appended, and
\* the newest directive is scoped to the newest row.
C3_RowDirectivesReferenceAppendedRow ==
    /\ \A k \in 1..Len(table_styles) :
          IF k <= GlobalCount
          THEN /\ IsGlobal(table_styles[k])
               /\ table_styles[k][2][2] = 0
               /\ table_styles[k][3][2] = -1
          ELSE /\ ~IsGlobal(table_styles[k])
               /\ table_styles[k][2][2] = table_styles[k][3][2]
               /\ table_styles[k][2][2] \in 0..(Len(table_data) - 1)
    /\ Len(table_styles) > GlobalCount =>
          table_styles[Len(table_styles)][2][2] = Len(table_data) - 1
    /\ Len(table_data) > 0 => Len(table_styles) > GlobalCount

C3_Witness ==
    /\ pc = "education_style"
    /\ Debug(data)
    /\ Len(data.experiences) = 2
    /\ Len(table_data) = row_index
    /\ Len(table_styles) > GlobalCount + 2 * Len(table_data)

-----------------------------------------------------------------------------
(* C4.                                                                     *)

Text(r) == table_data[r][1].text
Style(r) == table_data[r][1].style

\* C4: the rows of a completed build are the name, the contact line, the
\* objective section, the experiences section, the education section and
\* the skills section in that order; the jobs are in the order of the input
\* list, and each job's highlights follow its two heading rows in the order
\* of its highlights list, before the next job's rows.
C4_RowOrder ==
    pc = "done" =>
        /\ Text(1) = <<data.basic.name>> /\ Style(1) = "name"
        /\ Style(2) = "contact"
        /\ Text(3) = <<"Objective">> /\ Style(3) = "section"
        /\ Text(4) = <<data.objective>> /\ Style(4) = "objective"
        /\ Text(5) = <<"Experience">> /\ Style(5) = "section"
        /\ \A j \in 1..Len(data.experiences) :
              LET job == data.experiences[j] IN
              /\ Text(JobBase(j) + 1) = <<job.company>>
              /\ Style(JobBase(j) + 1) = "company_heading"
              /\ Text(JobBase(j) + 2) = <<job.titles[1].name>>
              /\ Style(JobBase(j) + 2) = "company_title"
              /\ \A h \in 1..Len(job.highlights) :
                    /\ Text(JobBase(j) + 2 + h) = <<job.highlights[h]>>
                    /\ Style(JobBase(j) + 2 + h) \in {"bullet_points", "last_bullet_point"}
        /\ Text(EducationBase + 1) = <<"Education">> /\ Style(EducationBase + 1) = "section"
        /\ \A m \in 1..Len(data.education) :
              /\ Style(EducationBase + 1 + m) = "education"
              /\ Text(EducationBase + 1 + m)[2] = data.education[m].school
        /\ Text(SkillsBase + 1) = <<"Skills">> /\ Style(SkillsBase + 1) = "section"
        /\ \A g \in 1..Len(data.skills) :
              /\ Style(SkillsBase + 1 + g) = "skills"
              /\ Text(SkillsBase + 1 + g)[2] = data.skills[g][1][2]
        /\ Len(table_data) = SkillsBase + 1 + Len(data.skills)

C4_Witness ==
    /\ pc = "done"
    /\ Len(data.experiences) = 2
    /\ data.experiences[1].company = "C"
    /\ data.experiences[2].company = "B"
    /\ Text(6) = <<"C">>
    /\ Text(12) = <<"b5">>
    /\ Text(13) = <<"B">>
    /\ Text(16) = <<"b2">>
    /\ Len(data.education) = 2
    /\ Len(data.skills) = 2

-----------------------------------------------------------------------------
(* C5.                                                                     *)

\* C5: the row of a job's last highlight has bottom padding 5 and every
\* other highlight row of the job has bottom padding 0, by the one
\* bottom-padding directive scoped to that row's index.
C5_LastHighlightPadding ==
    HasKey(data, "experiences") =>
        \A j \in 1..Len(data.experiences) :
            \A h \in 1..Len(data.experiences[j].highlights) :
                LET r == JobBase(j) + 2 + h
                    n == Len(data.experiences[j].highlights)
                    ks == RowDirectives("BOTTOMPADDING", r - 1)
                IN  (pc # "start" /\ r <= Len(table_data)) =>
                        /\ table_data[r][1].bulletText = BulletGlyph
                        /\ Cardinality(ks) = 1
                        /\ \A k \in ks : table_styles[k][4] = IF h = n THEN 5 ELSE 0

C5_Witness ==
    /\ pc = "done"
    /\ Len(data.experiences) = 2
    /\ Len(data.experiences[1].highlights) = 5
    /\ Len(data.experiences[2].highlights) = 1
    /\ \E k \in RowDirectives("BOTTOMPADDING", 11) : table_styles[k][4] = 5
    /\ \E k \in RowDirectives("BOTTOMPADDING", 10) : table_styles[k][4] = 0
    /\ \E k \in RowDirectives("BOTTOMPADDING", 14) : table_styles[k][4] = 5

-----------------------------------------------------------------------------
(* C6, C7: under UrlSpec.                                                  *)

\* C6 as stated: clean_url(clean_url(x)) = clean_url(x) for any string x.
C6_Idempotent ==
    upc = "twice" => twice = once

\* C6, amended: clean_url(clean_url(x)) = clean_url(x) exactly when
\* clean_url(x) contains none of https://, http://, www.; that is so for
\* every x made of whole prefixes and of characters that occur in none of
\* them, and not for every string: removing an occurrence can join its
\* neighbours into a new one.
C6_IdempotentWhenNoPrefixRemains ==
    upc = "twice" =>
        /\ (twice = once) <=> ~HasToken(once)
        /\ IsTokenString(url) => (~HasToken(once) /\ twice = once)

C6_Witness ==
    /\ upc = "twice"
    /\ url = WWW \o <<"a">> \o WWW
    /\ IsTokenString(url)
    /\ once = <<"a">>
    /\ twice = once

\* C7: clean_url(x) is x with a leading https:// removed if present, then a
\* leading http://, then a leading www., each once; occurrences elsewhere
\* in the string are left unchanged.
C7_StripsOnlyPrefixes ==
    upc \in {"once", "twice"} =>
        once = StripPrefix(StripPrefix(StripPrefix(url, HTTPS), HTTP), WWW)

-----------------------------------------------------------------------------
(* C8.                                                                     *)

NoZeroTitles == \A j \in 1..Len(data.experiences) : Len(data.experiences[j].titles) > 0
NoZeroHighlights == \A j \in 1..Len(data.experiences) : Len(data.experiences[j].highlights) > 0
NoZeroDegrees == \A m \in 1..Len(data.education) : Len(data.education[m].degrees) > 0

\* C8 as stated: no record with an experience without titles, an experience
\* without highlights or an education entry without degrees is built to
\* completion.
C8_EmptyListsNeverComplete ==
    pc = "done" => (NoZeroTitles /\ NoZeroHighlights /\ NoZeroDegrees)

\* C8, amended: no record with an experience without titles or an education
\* entry without degrees is built to completion, and the build has not passed
\* such an entry at any time; an experience without highlights is built to
\* completion with its two heading rows and no highlight row.
C8_EmptyTitlesOrDegreesNeverComplete ==
    /\ pc = "done" => (NoZeroTitles /\ NoZeroDegrees)
    /\ (pc \in {"job", "title", "bullet"} /\ HasKey(data, "experiences")) =>
          \A j \in 1..idx : Len(data.experiences[j].titles) > 0
    /\ (pc = "edu" /\ HasKey(data, "education")) =>
          \A m \in 1..idx : Len(data.education[m].degrees) > 0
    /\ pc = "error" => err \in {"KeyError", "IndexError"} /\ pdf = FALSE
    /\ pc = "done" =>
          \A j \in 1..Len(data.experiences) :
              Len(data.experiences[j].highlights) = 0 =>
                  /\ Style(JobBase(j) + 1) = "company_heading"
                  /\ Style(JobBase(j) + 2) = "company_title"
                  /\ Style(JobBase(j) + 3) \in {"company_heading", "section"}

C8_Witness ==
    /\ pc = "error"
    /\ err = "IndexError"
    /\ Missing(data) = "none"
    /\ Len(data.experiences) = 2
    /\ Len(data.experiences[1].highlights) = 0
    /\ Len(data.experiences[2].titles) = 0
    /\ idx = 1
    /\ Len(table_data) = 7

-----------------------------------------------------------------------------
(* C9.                                                                     *)

\* C9: one call of _add_table_row with row index i appends exactly one row,
\* appends a bottom-padding and a top-padding directive scoped to row i and
\* one span directive scoped to row i exactly if span was requested, leaves
\* the rows and directives before unchanged, and returns i + 1; no other
\* step changes the row list or the row index.
C9_AppendRowFrame ==
    [][/\ call' # call =>
            /\ call'.row_index = row_index
            /\ Len(table_data') = Len(table_data) + 1
            /\ SubSeq(table_data', 1, Len(table_data)) = table_data
            /\ Len(table_data'[Len(table_data')]) = Len(call'.content_style_map)
            /\ Len(table_styles') = Len(table_styles) + (IF call'.span THEN 3 ELSE 2)
            /\ SubSeq(table_styles', 1, Len(table_styles)) = table_styles
            /\ table_styles'[Len(table_styles) + 1] =
                  <<"BOTTOMPADDING", <<0, row_index>>, <<-1, row_index>>, call'.padding[1]>>
            /\ table_styles'[Len(table_styles) + 2] =
                  <<"TOPPADDING", <<0, row_index>>, <<-1, row_index>>, call'.padding[2]>>
            /\ call'.span =>
                  table_styles'[Len(table_styles) + 3] =
                      <<"SPAN", <<0, row_index>>, <<1, row_index>> >>
            /\ row_index' = row_index + 1
       /\ call' = call => (table_data' = table_data /\ row_index' = row_index)
      ]_vars

C9_Witness ==
    /\ call.row_index = 6
    /\ ~call.span
    /\ Len(call.content_style_map) = 2
    /\ row_index = 7
    /\ Len(table_data) = 7
    /\ table_styles[Len(table_styles)] = <<"TOPPADDING", <<0, 6>>, <<-1, 6>>, 1>>

-----------------------------------------------------------------------------
(* C10.                                                                    *)

\* C10: in every state of a build every row has one or two cells, and a row
\* has a span directive scoped to its index exactly if it has one cell.
C10_SpanIffOneCell ==
    \A r \in 1..Len(table_data) :
        /\ Len(table_data[r]) \in {1, 2}
        /\ HasSpan(r - 1) <=> (Len(table_data[r]) = 1)

C10_Witness ==
    /\ pc = "done"
    /\ Len(data.experiences) = 2
    /\ Len(table_data[6]) = 2
    /\ ~HasSpan(5)
    /\ Len(table_data[8]) = 1
    /\ HasSpan(7)

====
